---- MODULE Spec2Model ----
(***************************************************************************)
(* Lab spend ledger: the watch-buy orchestrator (watch_buy_and_append.py)  *)
(* with the dedup store (ledger_dedupe.py) and the ledger commit            *)
(* (log_spend_to_excel.py) it shells out to.                                *)
(*                                                                         *)
(* One run of main() is modelled step by step: StartRun is lines 248-289   *)
(* (argument parsing, load_state, pass 1, the initialise-and-exit branch), *)
(* each iteration of the pass-2 loop body (lines 294-345) is one action,   *)
(* chosen by the branch the iteration takes, and Finish is lines 347-359.  *)
(* Runs do not overlap (the script is run to completion by a scheduler).   *)
(*                                                                         *)
(* The session files are modelled flattened: transcript is the sequence of *)
(* user messages in the order the two passes read them (files by mtime,    *)
(* lines in file order).  Telegram message ids are positive.               *)
(*                                                                         *)
(* The command-line tools are also modelled on their own: single calls of  *)
(* ledger_dedupe.py (SpecDedupe), of log_spend_to_excel.py (SpecLog) and   *)
(* of graph_excel_append.py on a table with blank rows (SpecGraph).  Keys, *)
(* receipts and notes are strings, built as the scripts build them.        *)
(***************************************************************************)
EXTENDS Integers, Sequences, FiniteSets, TLC

\* ---------------------------------------------------------------- bounds
MaxMsgs == 2       \* messages in the transcript

\* ---------------------------------------------------- program constants
DefaultMax == 50   \* default of --max
EXIT_ALREADY_SEEN == 10

Groups == {"g1", "g2"}                       \* --group-id values
\* The orchestrator only compares message ids with each other and with 0,
\* so MaxMsgs ids give every ordering MaxMsgs messages can have.
Mids == 1..MaxMsgs
\* The raw texts of the messages: BuyOk holds the buy keyword and parses
\* to a complete draft, BuyVague holds the keyword and parses to an
\* incomplete draft, Chat lacks the keyword.
BuyOk == "buy cylinder $5"
BuyVague == "buy gloves"
Chat == "gloves"
Texts == {BuyOk, BuyVague, Chat}
\* A message without the keyword is no candidate whatever its id: it is
\* given the largest id, where it would show if it counted for a watermark.
Messages ==
    [gid : Groups, mid : Mids, text : {BuyOk, BuyVague}]
        \cup [gid : Groups, mid : {MaxMsgs}, text : {Chat}]
\* --max: none, the least that commits, and the default (never reached here)
Caps == {0, 1, DefaultMax}
\* The table is followed until it holds one row more than there are
\* messages, that is, up to a first repeated row.
MaxRows == MaxMsgs + 1

Max(a, b) == IF a >= b THEN a ELSE b

\* str.strip() on the strings of the model: the only one with white space
\* at an end is the blank " ".
Strip(v) == IF v = " " THEN "" ELSE v

\* None of Python and null of JSON, among values that are strings.
None == "<None>"

\* `part in text` of two strings: text is part with something before and
\* after it.  Before and after range over the empty string and the decimal
\* digits, by which one id's receipt tag extends to another's.
Affixes == {""} \cup {ToString(d) : d \in 0..9}

Contains(text, part) ==
    IF Len(part) >= Len(text) THEN text = part
    ELSE \E before \in Affixes, after \in Affixes :
             text = before \o part \o after

\* -------------------------------------------------------- persisted files
\* A file is absent, valid JSON, or present but not parseable.
AbsentState == [kind |-> "absent", last |-> 0]
ValidState(n) == [kind |-> "valid", last |-> n]
CorruptState == [kind |-> "corrupt", last |-> 0]

EmptySeen == [k \in {} |-> 0]
AbsentDedupe == [kind |-> "absent", seen |-> EmptySeen]
CorruptDedupe == [kind |-> "corrupt", seen |-> EmptySeen]

VARIABLES
    transcript,   \* the user messages of the session files, in scan order
    stateFile,    \* the state json file at the --state path runs are given
    dedupeFile,   \* lab_spend_ledger_dedupe.json
    ledger,       \* rows of the remote Excel table, in table order
    pc,           \* "idle" | "pass2" | "done"
    args,         \* [group_id, max, init_only]
    state,        \* main's `state` dict: [has, last]
    first_run,    \* main's first_run
    last_mid,     \* main's last_mid
    pos,          \* index in transcript of the next pass-2 iteration
    appended,     \* main's appended list
    out,          \* the JSON summary printed by the run
    trace,        \* history: what each pass-2 iteration of this run did
    start,        \* history: the persisted files when the run started
    hadRun,       \* history: the groups a run has completed for
    prev,         \* history: the run that exited last
    graphOut,     \* the JSON printed by the last graph_excel_append.py call
    graphIn,      \* history: the table and arguments that call was given
    dedupeCall,   \* the last ledger_dedupe.py call from the command line
    marked,       \* history: the keys such a call has marked
    parseIn,      \* the text on the parser's command line
    parseOut,     \* the draft printed by the last parser invocation
    parsePrev     \* history: the draft printed for the same text before

files == <<transcript, stateFile, dedupeFile, ledger>>
locals == <<pc, args, state, first_run, last_mid, pos, appended, out>>
graphVars == <<graphOut, graphIn>>
dedupeVars == <<dedupeCall, marked>>
parseVars == <<parseIn, parseOut, parsePrev>>
aside == <<hadRun, prev, graphVars, dedupeVars, parseVars>>
history == <<trace, start, aside>>
vars == <<files, locals, history>>

\* ------------------------------------------------------------ load_state
\* A missing file and a file json.loads rejects both give {}.
load_state(f) ==
    IF f.kind = "valid" THEN [has |-> TRUE, last |-> f.last]
    ELSE [has |-> FALSE, last |-> 0]

\* The file save_state leaves for a dict whose last_message_id is n.
save_state(n) == ValidState(n)

\* state.get("last_message_id", 0) or 0
StateLast(s) == IF s.has THEN s.last ELSE 0

\* ------------------------------------------- parse_purchase_message.py
\* A text is a sequence of tokens separated by single spaces.  The tokens
\* are a sample of what the regular expressions and keyword lists react to;
\* what a pattern finds inside a token is tabulated below.
MaxWords == 3
Words == {"buy", "gloves", "pump", "cylinder", "consumables", "$5", "7usd",
          "USD 9", "DE", "Est"}
ParseTexts == UNION {[1..n -> Words] : n \in 1..MaxWords}
Clock == {"t1", "t2"}

\* Lines 26-36 (three of the nine codes), 20-24 and 48-83 (keywords that
\* occur in the tokens), in the order of the source.
PROJECT_CODES == <<"DE", "DE Est", "ASG">>
CATEGORY_KEYWORDS ==
    <<[cat |-> "Lab consumables", kws |-> <<"gloves">>],
      [cat |-> "Equipment", kws |-> <<"pump">>],
      [cat |-> "Chemicals & gases", kws |-> <<"cylinder">>]>>

\* str.lower() of a token.
Lower(w) ==
    CASE w = "DE" -> "de" [] w = "Est" -> "est" [] w = "USD 9" -> "usd 9"
      [] OTHER -> w

\* The words of a lower-cased project code.
CodeWords(p) ==
    CASE p = "DE" -> <<"de">> [] p = "DE Est" -> <<"de", "est">>
      [] OTHER -> <<"asg">>

\* `pat in w` for a one-word pattern and a lower-cased token: equal to it
\* or inside it ("de" is inside "cylinder").
Inside(pat, w) == pat = w \/ <<pat, w>> \in {<<"de", "cylinder">>}

\* `pat in t` for a pattern of one or more words and a lower-cased text.
\* Over these tokens a pattern of several words occurs only token by token.
PatternIn(pat, t) ==
    IF Len(pat) = 1
    THEN \E i \in 1..Len(t) : Inside(pat[1], t[i])
    ELSE \E i \in 1..(Len(t) - Len(pat) + 1) :
             \A k \in 1..Len(pat) : t[i + k - 1] = pat[k]

LowerText(text) == [i \in 1..Len(text) |-> Lower(text[i])]

\* sorted(PROJECT_CODES, key=len, reverse=True): a stable sort, the longer
\* codes first.
RECURSIVE InsertByLen(_, _)
InsertByLen(p, sorted) ==
    IF sorted = <<>> THEN <<p>>
    ELSE IF Len(Head(sorted)) >= Len(p)
         THEN <<Head(sorted)>> \o InsertByLen(p, Tail(sorted))
         ELSE <<p>> \o sorted

RECURSIVE SortedByLen(_)
SortedByLen(codes) ==
    IF codes = <<>> THEN <<>>
    ELSE InsertByLen(codes[Len(codes)],
                     SortedByLen(SubSeq(codes, 1, Len(codes) - 1)))

\* The least element of a non-empty set of numbers.
Least(S) == CHOOSE n \in S : \A m \in S : n <= m

\* Lines 91-96.  Confidences are in hundredths.
find_project(text) ==
    LET order == SortedByLen(PROJECT_CODES)
        hits == {i \in 1..Len(order) :
                    PatternIn(CodeWords(order[i]), LowerText(text))}
    IN  IF hits = {} THEN [project |-> None, conf |-> 0]
        ELSE [project |-> order[Least(hits)], conf |-> 95]

\* The amount patterns of lines 100, 107 and 114 on a token.
\* An amount is written as json.dumps writes the float.
NoAmount == [ccy |-> None, amt |-> None]
ExplicitAmount(w) ==
    IF w = "USD 9" THEN [ccy |-> "USD", amt |-> "9.0"] ELSE NoAmount

\* Line 46.
SYMBOL_TO_CCY ==
    [s \in {"$", "£", "€"} |->
        IF s = "$" THEN "AUD" ELSE IF s = "£" THEN "GBP" ELSE "EUR"]

\* Faulty variant: no symbol has a currency.
SymbolCcyUnknown(symbol) == None

\* Line 111: SYMBOL_TO_CCY.get(m.group(1)).
SymbolCcy(symbol) ==
    IF symbol \in DOMAIN SYMBOL_TO_CCY THEN SYMBOL_TO_CCY[symbol] ELSE None

SymbolAmount(w) ==
    IF w = "$5" THEN [ccy |-> SymbolCcy("$"), amt |-> "5.0"] ELSE NoAmount
SuffixAmount(w) ==
    IF w = "7usd" THEN [ccy |-> "USD", amt |-> "7.0"] ELSE NoAmount

\* Lines 99-121: the first match of the first pattern that matches.
find_currency_and_amount(text) ==
    LET explicit == {i \in 1..Len(text) : ExplicitAmount(text[i]) # NoAmount}
        symbol == {i \in 1..Len(text) : SymbolAmount(text[i]) # NoAmount}
        suffix == {i \in 1..Len(text) : SuffixAmount(text[i]) # NoAmount}
    IN  IF explicit # {}
        THEN [ccy |-> ExplicitAmount(text[Least(explicit)]).ccy,
              amt |-> ExplicitAmount(text[Least(explicit)]).amt, conf |-> 90]
        ELSE IF symbol # {}
        THEN [ccy |-> SymbolAmount(text[Least(symbol)]).ccy,
              amt |-> SymbolAmount(text[Least(symbol)]).amt, conf |-> 70]
        ELSE IF suffix # {}
        THEN [ccy |-> SuffixAmount(text[Least(suffix)]).ccy,
              amt |-> SuffixAmount(text[Least(suffix)]).amt, conf |-> 85]
        ELSE [ccy |-> None, amt |-> None, conf |-> 0]

\* Faulty variant: the keyword tables are gone through in an order that
\* differs from one invocation to the next (here, by the clock).
find_category_unordered(text, now) ==
    LET t == LowerText(text)
        hit(c) == \E k \in 1..Len(CATEGORY_KEYWORDS[c].kws) :
                      PatternIn(<<CATEGORY_KEYWORDS[c].kws[k]>>, t)
        hits == {c \in 1..Len(CATEGORY_KEYWORDS) : hit(c)}
    IN  IF \E i \in 1..Len(t) : t[i] = "consumables"
        THEN [category |-> "Lab consumables", conf |-> 95]
        ELSE IF hits = {} THEN [category |-> None, conf |-> 0]
        ELSE [category |->
                  CATEGORY_KEYWORDS[IF now = "t1" THEN Least(hits)
                                    ELSE CHOOSE c \in hits :
                                             \A d \in hits : d <= c].cat,
              conf |-> 70]

\* Lines 124-145: an explicit category token, else the first category, in
\* the order of CATEGORY_KEYWORDS, one of whose keywords is in the text.
\* The invocation's clock is not looked at.
find_category(text, now) ==
    LET t == LowerText(text)
        hit(c) == \E k \in 1..Len(CATEGORY_KEYWORDS[c].kws) :
                      PatternIn(<<CATEGORY_KEYWORDS[c].kws[k]>>, t)
        hits == {c \in 1..Len(CATEGORY_KEYWORDS) : hit(c)}
    IN  IF \E i \in 1..Len(t) : t[i] = "consumables"
        THEN [category |-> "Lab consumables", conf |-> 95]
        ELSE IF hits = {} THEN [category |-> None, conf |-> 0]
        ELSE [category |-> CATEGORY_KEYWORDS[Least(hits)].cat, conf |-> 70]

\* Lines 152-163.  The substitutions erase these tokens altogether,
Stays(w) == w \notin {"buy", "consumables", "DE", "$5", "7usd"}

\* and leave this of a token that stays.  The number of "USD 9" goes as
\* well when, with the erased tokens gone, a currency code follows it.
Cleaned(w, next) ==
    CASE w = "cylinder" -> "cylinr"
      [] w = "USD 9" -> IF next = "USD 9" THEN "" ELSE "9"
      [] OTHER -> w

\* Line 164: runs of white space become one space, the ends are stripped.
RECURSIVE JoinWords(_)
JoinWords(ws) ==
    IF ws = <<>> THEN ""
    ELSE IF Head(ws) = "" THEN JoinWords(Tail(ws))
    ELSE IF JoinWords(Tail(ws)) = "" THEN Head(ws)
    ELSE Head(ws) \o " " \o JoinWords(Tail(ws))

\* Lines 148-167.
guess_item(text) ==
    LET kept == SelectSeq(text, Stays)
        cleaned == JoinWords([i \in 1..Len(kept) |->
                       Cleaned(kept[i], IF i < Len(kept) THEN kept[i + 1]
                                        ELSE "")])
    IN  IF cleaned = "" THEN [item |-> None, conf |-> 0]
        ELSE [item |-> cleaned, conf |-> 40]

\* The missing fields of lines 178-186, in their order.
Missing(item, amt, category, project) ==
    (IF item = None THEN <<"item">> ELSE <<>>)
    \o (IF amt = None THEN <<"amount">> ELSE <<>>)
    \o (IF category = None THEN <<"category">> ELSE <<>>)
    \o (IF project = None THEN <<"project_code">> ELSE <<>>)

\* Faulty variant: every draft is reported as complete.
parse_never_asks(text, now) ==
    LET p == find_project(text)
        a == find_currency_and_amount(text)
        c == find_category(text, now)
        g == guess_item(text)
        missing == Missing(g.item, a.amt, c.category, p.project)
    IN  [timestamp_utc |-> now,
         raw_text |-> text,
         item |-> g.item,
         total |-> a.amt,
         currency |-> a.ccy,
         category |-> c.category,
         project_code |-> p.project,
         confidence |-> Max(Max(p.conf, a.conf), Max(c.conf, g.conf)),
         missing_fields |-> missing,
         needs_clarification |-> FALSE]

\* Lines 170-199: the draft for a text, parsed when the clock reads now.
parse(text, now) ==
    LET p == find_project(text)
        a == find_currency_and_amount(text)
        c == find_category(text, now)
        g == guess_item(text)
        missing == Missing(g.item, a.amt, c.category, p.project)
    IN  [timestamp_utc |-> now,
         raw_text |-> text,
         item |-> g.item,
         total |-> a.amt,
         currency |-> a.ccy,
         category |-> c.category,
         project_code |-> p.project,
         confidence |-> Max(Max(p.conf, a.conf), Max(c.conf, g.conf)),
         missing_fields |-> missing,
         needs_clarification |-> Len(missing) > 0]

\* ------------------------------------------------------- parse_candidate
NoCand == [message_id |-> 0, raw_text |-> "none"]

\* The raw texts messages can have, with their tokens: the texts that
\* begin with the keyword, and the single tokens.
TextOf(ws) == JoinWords(ws)
MessageWords == {ws \in ParseTexts : ws[1] = "buy" \/ Len(ws) = 1}
Tokenised == {<<TextOf(ws), ws>> : ws \in MessageWords}
RawTexts == {p[1] : p \in Tokenised}
WordsOf == [t \in RawTexts |-> (CHOOSE p \in Tokenised : p[1] = t)[2]]

\* Line 159: "buy" in raw.lower().
BuyTexts == {t \in RawTexts : PatternIn(<<"buy">>, LowerText(WordsOf[t]))}
HasBuy(text) == text \in BuyTexts

\* Line 133: f"id:{group_id}" of the header the message was injected with.
Marker(group_id) == "id:" \o group_id

\* Lines 132-167.  The marker of the run's group is looked for with `in`:
\* it is found in the marker of a group whose id goes on with digits.
parse_candidate(m, group_id) ==
    IF ~Contains(Marker(m.gid), Marker(group_id)) THEN NoCand
    ELSE IF ~HasBuy(m.text) THEN NoCand
    ELSE [message_id |-> m.mid, raw_text |-> m.text]

\* ------------------------------------------------------------ run_parser
\* Lines 170-179: the draft parse_purchase_message.py prints for raw_text
\* when its clock reads now.
Drafts == [t \in RawTexts |-> [now \in Clock |-> parse(WordsOf[t], now)]]
run_parser(raw_text, now) == Drafts[raw_text][now]

\* ---------------------------------------------------------- dedup store
\* Line 303: f"telegram:{group_id}:message:{mid}".
dedupe_key(group_id, mid) ==
    "telegram:" \o group_id \o ":message:" \o ToString(mid)

\* Faulty variant: the message id is left out of the receipt.
ReceiptOfChat(chat_id, message_id) == "telegram:" \o chat_id

\* Line 196: f"telegram:{chat_id}:{message_id}".
Receipt(chat_id, message_id) ==
    "telegram:" \o chat_id \o ":" \o ToString(message_id)

\* Faulty variant: the test is whether anything has been seen.
DedupeCheckExitAnySeen(f, key) ==
    IF f.kind = "corrupt" THEN 1
    ELSE IF DOMAIN f.seen # {} THEN EXIT_ALREADY_SEEN
    ELSE 0

\* ledger_dedupe.py check: exit 10 when the key is in "seen", exit 0 when
\* not, and a traceback (exit 1) when the file does not load.
DedupeCheckExit(f, key) ==
    IF f.kind = "corrupt" THEN 1
    ELSE IF key \in DOMAIN f.seen THEN EXIT_ALREADY_SEEN
    ELSE 0

\* Faulty variant: the exit status of the check is not looked at.
dedupe_check_never(f, key) == FALSE

dedupe_check(f, key) == DedupeCheckExit(f, key) = EXIT_ALREADY_SEEN

\* Faulty variant: the mark is not written.
dedupe_mark_dropped(f, key, meta) == f

\* ledger_dedupe.py mark, as dedupe_mark runs it (check=False: a failure
\* of the subprocess is ignored).
dedupe_mark(f, key, meta) ==
    IF f.kind = "corrupt" THEN f
    ELSE [kind |-> "valid",
          seen |-> [k \in (DOMAIN f.seen) \cup {key} |->
                       IF k = key THEN meta ELSE f.seen[k]]]

\* ---------------------------------------------------------------- pass 1
RECURSIVE Pass1(_, _, _, _)
Pass1(msgs, i, group_id, acc) ==
    IF i > Len(msgs) THEN acc
    ELSE LET cand == parse_candidate(msgs[i], group_id)
         IN Pass1(msgs, i + 1, group_id,
                  IF cand = NoCand THEN acc ELSE Max(acc, cand.message_id))

\* Faulty variant: pass 1 starts from 0 instead of from the persisted watermark.
SeenMaxMidFromZero(msgs, group_id, last) == Pass1(msgs, 1, group_id, 0)

SeenMaxMid(msgs, group_id, last) == Pass1(msgs, 1, group_id, last)

\* Faulty variant: only --init-only initialises; a first run goes on to pass 2.
IsInitRunFlagOnly(init_only, first, seen_max_mid) == init_only

\* Faulty variant: --init-only is honoured on a first run only.
IsInitRunFirstOnly(init_only, first, seen_max_mid) ==
    first /\ (init_only \/ seen_max_mid > 0)

IsInitRun(init_only, first, seen_max_mid) ==
    init_only \/ (first /\ seen_max_mid > 0)

\* ------------------------------------------------------------------ Init
NoArgs == [group_id |-> "none", max |-> 0, init_only |-> FALSE]
NoState == [has |-> FALSE, last |-> 0]
NoOut == [ok |-> FALSE, initialized |-> FALSE, last_message_id |-> 0,
          appended |-> <<>>]
NoStart == [file |-> AbsentState, rows |-> 0, keys |-> {}]
NoPrev == [group |-> "none", clean |-> FALSE]

NoGraphOut == [ok |-> FALSE, mode |-> "none", index |-> 0]
NoGraphIn == [table |-> <<>>, row |-> <<>>, fill |-> FALSE]
NoDraft == [timestamp_utc |-> "", raw_text |-> <<>>, item |-> "",
            total |-> "", currency |-> "", category |-> "",
            project_code |-> "", confidence |-> 0, missing_fields |-> <<>>,
            needs_clarification |-> FALSE]
NoDedupeCall == [mode |-> "none", key |-> "", meta_ok |-> TRUE,
                 meta |-> EmptySeen, now |-> "", exit |-> 0,
                 before |-> AbsentDedupe]

\* Nothing has run yet; the table is left open.
InitRest ==
    /\ transcript = <<>>
    /\ stateFile = AbsentState
    /\ dedupeFile = AbsentDedupe
    /\ pc = "idle"
    /\ args = NoArgs
    /\ state = NoState
    /\ first_run = FALSE
    /\ last_mid = 0
    /\ pos = 0
    /\ appended = <<>>
    /\ out = NoOut
    /\ trace = <<>>
    /\ start = NoStart
    /\ hadRun = {}
    /\ prev = NoPrev
    /\ graphOut = NoGraphOut
    /\ graphIn = NoGraphIn
    /\ dedupeCall = NoDedupeCall
    /\ marked = {}
    /\ parseOut = NoDraft
    /\ parsePrev = NoDraft

Init ==
    /\ InitRest
    /\ parseIn = <<>>
    /\ ledger = <<>>

\* ----------------------------------------------------------- environment
\* A user message is written to a session file (between runs).
Arrive(m) ==
    /\ pc = "idle"
    /\ Len(transcript) < MaxMsgs
    /\ transcript' = Append(transcript, m)
    /\ UNCHANGED <<stateFile, dedupeFile, ledger, locals, history>>

\* The first message of conversation g1 is written, with any of the raw
\* texts.
ArriveFirst(text) ==
    /\ pc = "idle"
    /\ transcript = <<>>
    /\ transcript' = <<[gid |-> "g1", mid |-> 1, text |-> text]>>
    /\ UNCHANGED <<stateFile, dedupeFile, ledger, locals, history>>

\* --state (line 239) names the state file.  From here on the runs are given
\* a path at which no file exists yet (a new --state value, or the file was
\* removed for a manual reset); the dedup store keeps its fixed path.
NewStatePath ==
    /\ pc = "idle"
    /\ stateFile.kind = "valid"
    /\ stateFile' = AbsentState
    /\ UNCHANGED <<transcript, dedupeFile, ledger, locals, history>>

\* Arrive and NewStatePath for runs that remember the run before: a change
\* of the transcript or of the state file between two runs ends the
\* succession.
ArriveBetween(m) ==
    /\ pc = "idle"
    /\ Len(transcript) < MaxMsgs
    /\ transcript' = Append(transcript, m)
    /\ prev' = NoPrev
    /\ UNCHANGED <<stateFile, dedupeFile, ledger, locals, trace, start,
                   hadRun, graphVars, dedupeVars, parseVars>>

NewStatePathBetween ==
    /\ pc = "idle"
    /\ stateFile.kind = "valid"
    /\ stateFile' = AbsentState
    /\ prev' = NoPrev
    /\ UNCHANGED <<transcript, dedupeFile, ledger, locals, trace, start,
                   hadRun, graphVars, dedupeVars, parseVars>>

\* ------------------------------------------------------------- main, top
\* Lines 248-289: load the state, pass 1, and either initialise and exit
\* or enter pass 2.
StartRun(group_id, max, init_only) ==
    /\ pc = "idle"
    /\ LET st == load_state(stateFile)
           first == ~st.has
           last == StateLast(st)
           seen_max_mid == SeenMaxMid(transcript, group_id, last)
       IN /\ args' = [group_id |-> group_id, max |-> max,
                      init_only |-> init_only]
          /\ first_run' = first
          /\ start' = [file |-> stateFile, rows |-> Len(ledger),
                       keys |-> DOMAIN dedupeFile.seen]
          /\ trace' = <<>>
          /\ appended' = <<>>
          /\ IF IsInitRun(init_only, first, seen_max_mid)
             THEN /\ state' = [has |-> TRUE, last |-> seen_max_mid]
                  /\ stateFile' = save_state(seen_max_mid)
                  /\ last_mid' = last
                  /\ out' = [ok |-> TRUE, initialized |-> TRUE,
                             last_message_id |-> seen_max_mid,
                             appended |-> <<>>]
                  /\ pos' = 0
                  /\ pc' = "done"
             ELSE /\ state' = st
                  /\ stateFile' = stateFile
                  /\ last_mid' = last
                  /\ out' = NoOut
                  /\ pos' = 1
                  /\ pc' = "pass2"
    /\ UNCHANGED <<transcript, dedupeFile, ledger, aside>>

\* ------------------------------------------------------------ run_append
\* log_spend_to_excel.py lines 57-60: the receipt tag is added to the notes
\* unless the notes already contain it.
ReceiptTag(receipt) == "receipt=" \o receipt

\* Faulty variant: the tag is added without looking at the notes.
EmbedReceiptAlways(notes, receipt) ==
    Strip(Strip(notes) \o (IF Strip(notes) # "" THEN "; " ELSE "")
          \o ReceiptTag(receipt))

EmbedReceipt(notes, receipt) ==
    IF Contains(Strip(notes), ReceiptTag(receipt))
    THEN Strip(notes)
    ELSE Strip(Strip(notes) \o (IF Strip(notes) # "" THEN "; " ELSE "")
               \o ReceiptTag(receipt))

\* Lines 55-75: the row log_spend_to_excel.py hands to
\* graph_excel_append.py when called with --notes notes and the receipt of
\* the pair (given as --receipt or built by default, line 55).
LogRow(chat_id, message_id, notes, raw_text) ==
    [chat_id |-> chat_id, message_id |-> message_id,
     notes |-> EmbedReceipt(notes, Receipt(chat_id, message_id)),
     raw_text |-> raw_text]

\* The row for the arguments run_append passes (--notes "").
LedgerRow(chat_id, message_id, raw_text) ==
    LogRow(chat_id, message_id, "", raw_text)

\* What a successful run_append returns: the receipt and the index Graph
\* reports for the row added at the bottom of the table.
AppendResult(table, chat_id, message_id) ==
    [receipt |-> Receipt(chat_id, message_id), excel_index |-> Len(table)]

\* ----------------------------------------------------- main, pass-2 loop
InLoop == pc = "pass2" /\ pos <= Len(transcript)
Msg == transcript[pos]
Cand == parse_candidate(Msg, args.group_id)
Mid == Cand.message_id
Key == dedupe_key(args.group_id, Mid)
Event(what) == [what |-> what, mid |-> Mid]

Continue(what) ==
    /\ pos' = pos + 1
    /\ trace' = Append(trace, Event(what))

\* Lines 296-297: not a candidate of this group.
SkipNotCandidate ==
    /\ InLoop
    /\ Cand = NoCand
    /\ pos' = pos + 1
    /\ UNCHANGED <<files, pc, args, state, first_run, last_mid, appended, out,
                   history>>

\* Faulty variant: a message whose id equals the watermark is let through.
BelowWatermark(mid, last) == mid < last

\* Lines 298-300.
AtOrBelowWatermark(mid, last) == mid <= last

SkipOld ==
    /\ InLoop
    /\ Cand # NoCand
    /\ AtOrBelowWatermark(Mid, last_mid)
    /\ Continue("old")
    /\ UNCHANGED <<files, pc, args, state, first_run, last_mid, appended, out,
                   start, aside>>

Fresh ==
    /\ InLoop
    /\ Cand # NoCand
    /\ ~AtOrBelowWatermark(Mid, last_mid)

\* Faulty variant: the marked message is passed over but last_mid stays.
SkipSeenStays ==
    /\ Fresh
    /\ dedupe_check(dedupeFile, Key)
    /\ Continue("seen")
    /\ UNCHANGED <<files, pc, args, state, first_run, last_mid, appended, out,
                   start, aside>>

\* Lines 302-306.
SkipSeen ==
    /\ Fresh
    /\ dedupe_check(dedupeFile, Key)
    /\ last_mid' = Max(last_mid, Mid)
    /\ Continue("seen")
    /\ UNCHANGED <<files, pc, args, state, first_run, appended, out,
                   start, aside>>

Unseen == Fresh /\ ~dedupe_check(dedupeFile, Key)

\* Lines 308-312: the parser subprocess fails.
ParserFail ==
    /\ Unseen
    /\ Continue("parse_fail")
    /\ UNCHANGED <<files, pc, args, state, first_run, last_mid, appended, out,
                   start, aside>>

\* Lines 314-316.
\* Faulty variant: needs_clarification is not looked at.
EligibleAlways(draft) == TRUE

Eligible(draft) == ~draft.needs_clarification

Incomplete ==
    /\ Unseen
    /\ \E now \in Clock : ~Eligible(run_parser(Cand.raw_text, now))
    /\ Continue("incomplete")
    /\ UNCHANGED <<files, pc, args, state, first_run, last_mid, appended, out,
                   start, aside>>

Ready == Unseen /\ \E now \in Clock : Eligible(run_parser(Cand.raw_text, now))

\* Faulty variant: the message is marked although run_append raised.
CommitFailMarks ==
    /\ Ready
    /\ Continue("fail")
    /\ dedupeFile' = dedupe_mark(dedupeFile, Key,
                                 [receipt |-> Receipt(args.group_id, Mid),
                                  excel_index |-> Len(ledger)])
    /\ UNCHANGED <<transcript, stateFile, ledger, pc, args, state, first_run,
                   last_mid, appended, out, start, aside>>

\* Lines 321-336: run_append raises.
CommitFail ==
    /\ Ready
    /\ Continue("fail")
    /\ UNCHANGED <<files, pc, args, state, first_run, last_mid, appended, out,
                   start, aside>>

\* Faulty variant: the commit is reported but neither marked nor covered by
\* last_mid.
PostCommitForgets(app, ded, last, key, mid, res) ==
    [appended |-> Append(app, [message_id |-> mid, receipt |-> res.receipt,
                               excel_index |-> res.excel_index]),
     dedupe |-> ded,
     last_mid |-> last]

\* Faulty variant: the commit is reported and marked, but last_mid stays.
PostCommitKeepsLast(app, ded, last, key, mid, res) ==
    [appended |-> Append(app, [message_id |-> mid, receipt |-> res.receipt,
                               excel_index |-> res.excel_index]),
     dedupe |-> dedupe_mark(ded, key, [receipt |-> res.receipt,
                                       excel_index |-> res.excel_index]),
     last_mid |-> last]

\* Lines 338-341: what a successful commit leaves in appended, the dedup
\* store and last_mid.
PostCommit(app, ded, last, key, mid, res) ==
    [appended |-> Append(app, [message_id |-> mid, receipt |-> res.receipt,
                               excel_index |-> res.excel_index]),
     dedupe |-> dedupe_mark(ded, key, [receipt |-> res.receipt,
                                       excel_index |-> res.excel_index]),
     last_mid |-> Max(last, mid)]

\* Lines 342-345.
CapReached(app, max) == Len(app) >= max

\* Lines 321-345: run_append succeeds.
CommitOk ==
    /\ Ready
    /\ Len(ledger) < MaxRows
    /\ LET res == AppendResult(ledger, args.group_id, Mid)
           post == PostCommit(appended, dedupeFile, last_mid, Key, Mid, res)
       IN /\ ledger' = Append(ledger, LedgerRow(args.group_id, Mid, Cand.raw_text))
          /\ appended' = post.appended
          /\ dedupeFile' = post.dedupe
          /\ last_mid' = post.last_mid
          /\ pos' = IF CapReached(post.appended, args.max)
                    THEN Len(transcript) + 1
                    ELSE pos + 1
    /\ trace' = Append(trace, Event("commit"))
    /\ UNCHANGED <<transcript, stateFile, pc, args, state, first_run, out,
                   start, aside>>

\* Faulty variant: the state is saved at the end of every run.
NeedsSaveAlways(last, st) == TRUE

\* Lines 347-359.
NeedsSave(last, st) == last # StateLast(st)

Finish ==
    /\ pc = "pass2"
    /\ pos > Len(transcript)
    /\ IF NeedsSave(last_mid, state)
       THEN /\ state' = [has |-> TRUE, last |-> last_mid]
            /\ stateFile' = save_state(last_mid)
       ELSE UNCHANGED <<state, stateFile>>
    /\ out' = [ok |-> TRUE, initialized |-> FALSE,
               last_message_id |-> IF state'.has THEN state'.last ELSE last_mid,
               appended |-> appended]
    /\ pc' = "done"
    /\ UNCHANGED <<transcript, dedupeFile, ledger, args, first_run, last_mid,
                   pos, appended, history>>

\* The process exits.
Exit ==
    /\ pc = "done"
    /\ pc' = "idle"
    /\ args' = NoArgs
    /\ state' = NoState
    /\ first_run' = FALSE
    /\ last_mid' = 0
    /\ pos' = 0
    /\ appended' = <<>>
    /\ out' = NoOut
    /\ trace' = <<>>
    /\ start' = NoStart
    /\ UNCHANGED files

Return == Exit /\ UNCHANGED aside

\* The same, remembering which conversations have had a run.
ReturnNoted ==
    /\ Exit
    /\ hadRun' = hadRun \cup {args.group_id}
    /\ UNCHANGED <<prev, graphVars, dedupeVars, parseVars>>

\* The same, remembering the run that exits: its group, and whether it ran
\* to the end of the transcript with no failed extraction or commit.
ReturnKept ==
    /\ Exit
    /\ prev' = [group |-> args.group_id,
                clean |-> /\ \A i \in 1..Len(trace) :
                                 trace[i].what \notin {"fail", "parse_fail"}
                          /\ ~(appended # <<>> /\ CapReached(appended, args.max))]
    /\ UNCHANGED <<hadRun, graphVars, dedupeVars, parseVars>>

\* --------------------------------------------------------- damaged files
CorruptStateFile ==
    /\ pc = "idle"
    /\ stateFile.kind # "corrupt"
    /\ stateFile' = CorruptState
    /\ UNCHANGED <<transcript, dedupeFile, ledger, locals, history>>

CorruptDedupeFile ==
    /\ pc = "idle"
    /\ dedupeFile.kind # "corrupt"
    /\ dedupeFile' = CorruptDedupe
    /\ UNCHANGED <<transcript, stateFile, ledger, locals, history>>

\* ---------------------------------------------------- interrupted writes
\* Path.write_text opens the file for writing, which empties it, and then
\* writes the text: a process that is killed in between leaves an empty or
\* cut-off file, which does not parse.  The process is gone afterwards.
Killed ==
    /\ pc' = "idle"
    /\ args' = NoArgs
    /\ state' = NoState
    /\ first_run' = FALSE
    /\ last_mid' = 0
    /\ pos' = 0
    /\ appended' = <<>>
    /\ out' = NoOut
    /\ trace' = <<>>
    /\ start' = NoStart

\* Killed in save_state of the initialising branch (main, lines 273-275).
KilledInInitSave(group_id, init_only) ==
    /\ pc = "idle"
    /\ LET st == load_state(stateFile)
       IN  IsInitRun(init_only, ~st.has,
                     SeenMaxMid(transcript, group_id, StateLast(st)))
    /\ stateFile' = CorruptState
    /\ Killed
    /\ UNCHANGED <<transcript, dedupeFile, ledger, aside>>

\* Killed in save_state at the end of pass 2 (main, lines 347-349).
KilledInSave ==
    /\ pc = "pass2"
    /\ pos > Len(transcript)
    /\ NeedsSave(last_mid, state)
    /\ stateFile' = CorruptState
    /\ Killed
    /\ UNCHANGED <<transcript, dedupeFile, ledger, aside>>

\* Killed in ledger_dedupe.py's save while a committed message is being
\* marked (main, line 339; ledger_dedupe.py, lines 49-50 and 76).
KilledInMark ==
    /\ Ready
    /\ Len(ledger) < MaxRows
    /\ ledger' = Append(ledger, LedgerRow(args.group_id, Mid, Cand.raw_text))
    /\ dedupeFile' = CorruptDedupe
    /\ Killed
    /\ UNCHANGED <<transcript, stateFile, aside>>

\* -------------------------------------------------- log_spend_to_excel.py
\* One call of log_spend_to_excel.py that succeeds, by run_append or from
\* the command line: the row is added at the bottom of the table.
LogSpend(chat_id, message_id, notes, raw_text) ==
    /\ pc = "idle"
    /\ Len(ledger) < MaxRows
    /\ ledger' = Append(ledger, LogRow(chat_id, message_id, notes, raw_text))
    /\ UNCHANGED <<transcript, stateFile, dedupeFile, locals, history>>

\* ------------------------------------------------- graph_excel_append.py
\* A table row is a function from the columns to cell values.  None is the
\* JSON null of a Graph response; the other values are strings.
MaxTable == 4
ListTop == 2000
Cols == {"item", "price"}
CellValues == {None, " ", "x"}
Rows == [Cols -> CellValues]
NewRows == {[c \in Cols |-> "n"], [c \in Cols |-> IF c = "item" THEN "n" ELSE " "]}
Tables == UNION {[1..n -> Rows] : n \in 0..MaxTable}
NoIndex == -1

\* Line 259: (v is None) or (str(v).strip() == "").
IsBlankCell(v) == v = None \/ Strip(v) = ""

\* Lines 258-259: all cells of the row's values are blank.
IsEmptyRow(r) == \A c \in DOMAIN r : IsBlankCell(r[c])

\* Lines 156-161, list_rows with $top: the first `top` rows with their 0-based indexes.
list_rows(table, top) ==
    [i \in 1..(IF Len(table) < top THEN Len(table) ELSE top) |->
        [index |-> i - 1, values |-> table[i]]]

\* Lines 253-261: the index of the first empty row listed, if any.
FirstEmptyIndex(values) ==
    LET empty == {i \in 1..Len(values) : IsEmptyRow(values[i].values)}
    IN  IF empty = {} THEN NoIndex
        ELSE values[CHOOSE i \in empty : \A j \in empty : i <= j].index

\* Lines 263-271, 191-211: PATCH of the range of table row `index`.
update_range_values(table, index, row) == [table EXCEPT ![index + 1] = row]

\* Lines 145-153: POST rows/add puts the row at the bottom.
add_row(table, row) == Append(table, row)

\* Faulty variant: the fill branch does not return and the row is added at
\* the bottom as well.
graph_excel_append_no_return(table, row, fill) ==
    LET empty_index == IF fill THEN FirstEmptyIndex(list_rows(table, ListTop))
                       ELSE NoIndex
    IN  IF empty_index # NoIndex
        THEN [table |-> add_row(update_range_values(table, empty_index, row), row),
              out |-> [ok |-> TRUE, mode |-> "append-bottom",
                       index |-> Len(table)]]
        ELSE [table |-> add_row(table, row),
              out |-> [ok |-> TRUE, mode |-> "append-bottom",
                       index |-> Len(table)]]

\* main, lines 250-292, when every Graph request succeeds: the table it
\* leaves and the JSON it prints.
graph_excel_append(table, row, fill) ==
    LET empty_index == IF fill THEN FirstEmptyIndex(list_rows(table, ListTop))
                       ELSE NoIndex
    IN  IF empty_index # NoIndex
        THEN [table |-> update_range_values(table, empty_index, row),
              out |-> [ok |-> TRUE, mode |-> "fill-first-empty",
                       index |-> empty_index]]
        ELSE [table |-> add_row(table, row),
              out |-> [ok |-> TRUE, mode |-> "append-bottom",
                       index |-> Len(table)]]

InitGraph ==
    /\ InitRest
    /\ parseIn = <<>>
    /\ ledger \in Tables

\* One call of graph_excel_append.py that succeeds.
GraphAppend(row, fill) ==
    /\ pc = "idle"
    /\ Len(ledger) <= MaxTable
    /\ LET r == graph_excel_append(ledger, row, fill)
       IN  /\ ledger' = r.table
           /\ graphOut' = r.out
    /\ graphIn' = [table |-> ledger, row |-> row, fill |-> fill]
    /\ UNCHANGED <<transcript, stateFile, dedupeFile, locals, trace, start,
                   hadRun, prev, dedupeVars, parseVars>>

\* Tables about as long as one listing of the fill scan: filled rows and at
\* most one blank row, near the top or around the end of the listing.
MaxBeyond == 2
LongLens == (ListTop - 1)..(ListTop + MaxBeyond)
BlankAt == {0, 1, 2} \cup (ListTop - 1)..(ListTop + MaxBeyond)
LongTable(n, b) ==
    [i \in 1..n |-> [c \in Cols |-> IF i = b THEN None ELSE "x"]]
LongTables == {LongTable(n, b) : n \in LongLens, b \in BlankAt}

InitLong ==
    /\ InitRest
    /\ parseIn = <<>>
    /\ ledger \in LongTables

\* One call of graph_excel_append.py on such a table that succeeds.
GraphAppendLong(row, fill) ==
    /\ pc = "idle"
    /\ Len(ledger) <= ListTop + MaxBeyond
    /\ LET r == graph_excel_append(ledger, row, fill)
       IN  /\ ledger' = r.table
           /\ graphOut' = r.out
    /\ graphIn' = [table |-> ledger, row |-> row, fill |-> fill]
    /\ UNCHANGED <<transcript, stateFile, dedupeFile, locals, trace, start,
                   hadRun, prev, dedupeVars, parseVars>>

\* A Graph request of a call fails (graph_json raises, lines 119-120): the
\* process ends with a traceback, prints no JSON, and the table is as it was.
GraphFail ==
    /\ pc = "idle"
    /\ graphOut' = NoGraphOut
    /\ UNCHANGED <<files, locals, trace, start, hadRun, prev, graphIn,
                   dedupeVars, parseVars>>

\* ------------------------------------------------ ledger_dedupe.py main
\* The keys, --meta values and clock readings of the calls.
DedupeKeys == {dedupe_key(g, 1) : g \in Groups} \cup {"k"}
Metas == {EmptySeen, [receipt |-> Receipt("g1", 1), excel_index |-> 0],
          [marked_at |-> "t0"]}
Times == {"t1", "t2"}

\* Line 74: meta.setdefault("marked_at", now_iso()).
WithMarkedAt(meta, now) ==
    IF "marked_at" \in DOMAIN meta THEN meta
    ELSE [f \in (DOMAIN meta) \cup {"marked_at"} |->
             IF f = "marked_at" THEN now ELSE meta[f]]

\* Faulty variant: an entry that is there is kept (seen.setdefault).
ledger_dedupe_mark_keeps(f, key, meta, now) ==
    IF f.kind = "corrupt" THEN [file |-> f, exit |-> 1]
    ELSE [file |-> [kind |-> "valid",
                    seen |-> [k \in (DOMAIN f.seen) \cup {key} |->
                                 IF k \in DOMAIN f.seen THEN f.seen[k]
                                 ELSE WithMarkedAt(meta, now)]],
          exit |-> 0]

\* Lines 58-59, 70-77: mark loads the file, sets seen[key] and saves; a
\* file that does not load ends the call with a traceback (exit 1).
ledger_dedupe_mark(f, key, meta, now) ==
    IF f.kind = "corrupt" THEN [file |-> f, exit |-> 1]
    ELSE [file |-> [kind |-> "valid",
                    seen |-> [k \in (DOMAIN f.seen) \cup {key} |->
                                 IF k = key THEN WithMarkedAt(meta, now)
                                 ELSE f.seen[k]]],
          exit |-> 0]

\* `ledger_dedupe.py check --key key`: nothing is saved.
DedupeCheck(key) ==
    /\ pc = "idle"
    /\ dedupeCall' = [mode |-> "check", key |-> key, meta_ok |-> TRUE,
                      meta |-> EmptySeen, now |-> "",
                      exit |-> DedupeCheckExit(dedupeFile, key),
                      before |-> dedupeFile]
    /\ UNCHANGED <<files, locals, trace, start, hadRun, prev, graphVars,
                   marked, parseVars>>

\* `ledger_dedupe.py mark --key key --meta meta` at clock reading now.
DedupeMark(key, meta, now) ==
    /\ pc = "idle"
    /\ LET r == ledger_dedupe_mark(dedupeFile, key, meta, now)
       IN  /\ dedupeFile' = r.file
           /\ dedupeCall' = [mode |-> "mark", key |-> key, meta_ok |-> TRUE,
                             meta |-> meta, now |-> now, exit |-> r.exit,
                             before |-> dedupeFile]
           /\ marked' = IF r.exit = 0 THEN marked \cup {key} ELSE marked
    /\ UNCHANGED <<transcript, stateFile, ledger, locals, trace, start,
                   hadRun, prev, graphVars, parseVars>>

\* mark with a --meta that is not a JSON object: json.loads or setdefault
\* raises (lines 72-74) before anything is saved.
DedupeMarkBadMeta(key) ==
    /\ pc = "idle"
    /\ dedupeCall' = [mode |-> "mark", key |-> key, meta_ok |-> FALSE,
                      meta |-> EmptySeen, now |-> "", exit |-> 1,
                      before |-> dedupeFile]
    /\ UNCHANGED <<files, locals, trace, start, hadRun, prev, graphVars,
                   marked, parseVars>>

\* ----------------------------------- parse_purchase_message.py main
\* The parser is given one text of the bounded set, over and over.
InitParse ==
    /\ InitRest
    /\ parseIn \in ParseTexts
    /\ ledger = <<>>

\* One invocation of the parser on that text (lines 202-208).  parsePrev
\* keeps the draft of the invocation before it.
Parse(now) ==
    /\ pc = "idle"
    /\ parseOut' = parse(parseIn, now)
    /\ parsePrev' = parseOut
    /\ UNCHANGED <<files, locals, trace, start, hadRun, prev, graphVars,
                   dedupeVars, parseIn>>

\* -------------------------------------------------------- specifications
RunStep ==
    \/ \E g \in Groups, c \in Caps, i \in BOOLEAN : StartRun(g, c, i)
    \/ SkipNotCandidate
    \/ SkipOld
    \/ SkipSeen
    \/ ParserFail
    \/ Incomplete
    \/ CommitFail
    \/ CommitOk
    \/ Finish

Step ==
    \/ \E m \in Messages : Arrive(m)
    \/ NewStatePath
    \/ RunStep

Next ==
    \/ Step
    \/ Return

Spec == Init /\ [][Next]_vars

\* The same, with runs for a group id that the id of conversation g1 begins
\* with.
GroupPrefix == "g"

NextPrefix ==
    \/ Next
    \/ \E c \in Caps, i \in BOOLEAN : StartRun(GroupPrefix, c, i)

SpecPrefix == Init /\ [][NextPrefix]_vars

\* Runs on a transcript of one message, whose text is any raw text.
NextDraft ==
    \/ \E text \in RawTexts : ArriveFirst(text)
    \/ \E g \in Groups, c \in Caps, i \in BOOLEAN : StartRun(g, c, i)
    \/ SkipNotCandidate
    \/ SkipOld
    \/ ParserFail
    \/ Incomplete
    \/ CommitFail
    \/ CommitOk
    \/ Finish
    \/ Return

SpecDraft == Init /\ [][NextDraft]_vars

\* Runs for several conversations, noting which have had one.
NextNoted ==
    \/ Step
    \/ ReturnNoted

SpecNoted == Init /\ [][NextNoted]_vars

\* Runs, each remembering the one before it.
NextTwice ==
    \/ \E m \in Messages : ArriveBetween(m)
    \/ NewStatePathBetween
    \/ RunStep
    \/ ReturnKept

SpecTwice == Init /\ [][NextTwice]_vars

\* Calls of log_spend_to_excel.py, whatever has been logged before.
NextLog ==
    \E g \in Groups, mid \in Mids, notes \in {"", " "},
       text \in {BuyOk, BuyVague} : LogSpend(g, mid, notes, text)

SpecLog == Init /\ [][NextLog]_vars

\* Invocations of parse_purchase_message.py.
NextParse == \E now \in Clock : Parse(now)

SpecParse == InitParse /\ [][NextParse]_vars

\* Calls of graph_excel_append.py on a table of the workbook.
NextGraph ==
    \/ \E row \in NewRows, fill \in BOOLEAN : GraphAppend(row, fill)
    \/ GraphFail

SpecGraph == InitGraph /\ [][NextGraph]_vars

\* Calls of graph_excel_append.py on a long table.
NextLong == \E row \in NewRows, fill \in BOOLEAN : GraphAppendLong(row, fill)

SpecLong == InitLong /\ [][NextLong]_vars

\* Calls of ledger_dedupe.py from the command line.
NextDedupe ==
    \/ \E key \in DedupeKeys : DedupeCheck(key)
    \/ \E key \in DedupeKeys, meta \in Metas, now \in Times :
           DedupeMark(key, meta, now)
    \/ \E key \in DedupeKeys : DedupeMarkBadMeta(key)

SpecDedupe == Init /\ [][NextDedupe]_vars

\* Runs over state files that may be damaged between runs.
NextCorrupt ==
    \/ Next
    \/ CorruptStateFile
    \/ CorruptDedupeFile

SpecCorrupt == Init /\ [][NextCorrupt]_vars

\* Runs that can be killed while they write a state file.
NextKilled ==
    \/ Next
    \/ \E g \in Groups, i \in BOOLEAN : KilledInInitSave(g, i)
    \/ KilledInSave
    \/ KilledInMark

SpecKilled == Init /\ [][NextKilled]_vars

\* ================================================================ claims
Committed(g, mid) ==
    \E i \in 1..Len(ledger) :
        ledger[i].chat_id = g /\ ledger[i].message_id = mid

\* The candidates of a group in the transcript, by position.
CandidateAt(g) ==
    {i \in 1..Len(transcript) : parse_candidate(transcript[i], g) # NoCand}

CandidateMids(g) == {transcript[i].mid : i \in CandidateAt(g)}

Events(what) == {i \in 1..Len(trace) : trace[i].what = what}

\* An iteration that went past the watermark test (lines 302 onwards).
Evaluated == {i \in 1..Len(trace) : trace[i].what # "old"}

\* C1: over any sequence of runs, no message (conversation, message id) has
\* more than one row committed for it.
C1_CommittedAtMostOnce ==
    \A i, j \in 1..Len(ledger) :
        (/\ ledger[i].chat_id = ledger[j].chat_id
         /\ ledger[i].message_id = ledger[j].message_id) => i = j

\* A later run, started below the message's id, meets a message that is
\* already committed and commits nothing for it.
C1_Witness ==
    /\ pc = "done"
    /\ \E i \in Events("seen") :
          /\ Committed(args.group_id, trace[i].mid)
          /\ start.file.kind = "valid"
          /\ start.file.last < trace[i].mid
    /\ Len(ledger) = start.rows

\* C2: when run_append fails for a message the run is aborted there: no
\* other message is evaluated later in that run, and the watermark the run
\* persists is below the failed message's id.
C2_AbortAtFailedCommit ==
    \A i \in Events("fail") :
        /\ \A j \in Evaluated : j > i => trace[j].mid = trace[i].mid
        /\ (pc = "done" /\ stateFile.kind = "valid")
              => stateFile.last < trace[i].mid

\* C3: a complete-draft candidate whose commit failed is attempted again by
\* a later run, so that it is committed in the end.  A later run attempts
\* only ids above the persisted watermark, so at the end of the run the
\* failed message must be committed or still above the watermark.
C3_FailedCommitRetried ==
    pc = "done" =>
        \A i \in Events("fail") :
            \/ Committed(args.group_id, trace[i].mid)
            \/ stateFile.kind # "valid"
            \/ stateFile.last < trace[i].mid

\* C4: the watermark a run leaves is at least the watermark it found,
\* init-only runs included.
C4_WatermarkMonotone ==
    (pc # "idle" /\ start.file.kind = "valid") =>
        /\ stateFile.kind = "valid"
        /\ stateFile.last >= start.file.last

\* An init-only run that found a watermark above every candidate it saw.
C4_Witness ==
    /\ pc = "done"
    /\ args.init_only
    /\ start.file.kind = "valid"
    /\ CandidateMids(args.group_id) # {}
    /\ \A m \in CandidateMids(args.group_id) : m < start.file.last

\* C5: a run that finds no persisted watermark and at least one candidate
\* commits no row, creates no dedup entry, and leaves the largest candidate
\* id as the watermark.
C5_FirstRunSkips ==
    (/\ pc = "done"
     /\ start.file.kind = "absent"
     /\ CandidateMids(args.group_id) # {}) =>
        /\ appended = <<>>
        /\ Events("commit") = {}
        /\ Len(ledger) = start.rows
        /\ DOMAIN dedupeFile.seen = start.keys
        /\ stateFile.kind = "valid"
        /\ stateFile.last \in CandidateMids(args.group_id)
        /\ \A m \in CandidateMids(args.group_id) : m <= stateFile.last

\* A first run without --init-only over a transcript that holds a candidate
\* with a complete draft.
C5_Witness ==
    /\ pc = "done"
    /\ start.file.kind = "absent"
    /\ ~args.init_only
    /\ \E i \in CandidateAt(args.group_id) : transcript[i].text = BuyOk

\* C6: the watermark is one per conversation: whatever runs other
\* conversations have had, the first run for a conversation is an
\* initialise-and-skip run and commits nothing.
C6_FirstRunPerConversationSkips ==
    (pc = "done" /\ args.group_id \notin hadRun) =>
        /\ appended = <<>>
        /\ Len(ledger) = start.rows

\* C7: a dedup entry exists for a message's key exactly when a row was
\* committed for the message.
C7_DedupIffCommitted ==
    \A g \in Groups, mid \in Mids :
        dedupe_key(g, mid) \in DOMAIN dedupeFile.seen <=> Committed(g, mid)

\* A run in which one commit succeeded and another failed, the failed
\* message being left without an entry.
C7_Witness ==
    /\ pc = "done"
    /\ Events("commit") # {}
    /\ \E i \in Events("fail") :
          dedupe_key(args.group_id, trace[i].mid) \notin DOMAIN dedupeFile.seen

\* C8: a dedup file that exists but does not parse is fatal for the run:
\* the run commits no row.
C8_CorruptDedupeIsFatal ==
    (pc # "idle" /\ dedupeFile.kind = "corrupt") =>
        /\ appended = <<>>
        /\ Len(ledger) = start.rows

\* C9: a watermark file that exists but does not parse aborts the run: it
\* is not taken for a first run, nothing is committed and the file is not
\* rewritten.
C9_CorruptStateIsFatal ==
    (pc # "idle" /\ start.file.kind = "corrupt") =>
        /\ ~first_run
        /\ stateFile = start.file
        /\ Len(ledger) = start.rows

\* C10: no row is ever committed for a message whose draft is incomplete,
\* and every entry of appended is the row of a complete draft.
C10_IncompleteNeverCommitted ==
    /\ \A i \in 1..Len(ledger) :
          \A now \in Clock :
              ~run_parser(ledger[i].raw_text, now).needs_clarification
    /\ \A k \in 1..Len(appended) :
          /\ appended[k].excel_index + 1 \in 1..Len(ledger)
          /\ LET row == ledger[appended[k].excel_index + 1]
             IN /\ row.chat_id = args.group_id
                /\ row.message_id = appended[k].message_id
                /\ \A now \in Clock :
                       ~run_parser(row.raw_text, now).needs_clarification

\* A run that met an incomplete draft above the watermark and committed
\* another message.
C10_Witness ==
    /\ pc = "done"
    /\ Events("incomplete") # {}
    /\ appended # <<>>

\* C11: when a candidate above the watermark yields an incomplete draft, the
\* run moves its watermark variable up to that message's id, so the watermark
\* the run persists covers the message and later runs do not parse it again.
C11_IncompleteAdvancesWatermark ==
    \A i \in Events("incomplete") :
        /\ last_mid >= trace[i].mid
        /\ pc = "done" =>
               stateFile.kind = "valid" /\ stateFile.last >= trace[i].mid

\* C12: a failure of the draft extractor is not fatal: the message is neither
\* committed nor marked, the run goes on, the watermark variable moves past
\* the message, and the extractor is not called for that message again in
\* the same run.
C12_ParserFailureAdvancesWatermark ==
    \A i \in Events("parse_fail") :
        /\ last_mid >= trace[i].mid
        /\ \A j \in Evaluated :
               (j > i /\ trace[j].mid = trace[i].mid) => trace[j].what = "seen"
        /\ \A k \in 1..Len(appended) : appended[k].message_id # trace[i].mid

\* C14: in a run, whatever the value of --max, the number of messages
\* committed never exceeds it, and a run that reaches the cap ends without
\* error.
C14_CommitsWithinCap ==
    pc # "idle" =>
        /\ Len(appended) <= args.max
        /\ Len(ledger) - start.rows <= args.max
        /\ pc = "done" => out.ok

\* The errors list of a summary; a summary without the key lists none.
SummaryErrors(o) == IF "errors" \in DOMAIN o THEN o.errors ELSE <<>>

\* C15: the summary of a run in which a commit or an extraction failed shows
\* the failure: its errors list is not empty or its ok is false.
C15_SummaryShowsFailures ==
    (pc = "done" /\ Events("fail") \cup Events("parse_fail") # {}) =>
        (~out.ok \/ SummaryErrors(out) # <<>>)

\* The run in progress follows a run for the same group with nothing in
\* between: same transcript, and the state file as that run left it.
InSuccession ==
    /\ pc # "idle"
    /\ prev.group = args.group_id

BlankRow(r) == \A c \in DOMAIN r : r[c] \in {None, "", " "}

\* Exactly one row of table t is blank, the one with 0-based index idx.
OnlyBlankAt(t, idx) ==
    /\ Len(t) > idx
    /\ \A i \in 1..Len(t) : BlankRow(t[i]) <=> i = idx + 1

\* C16: a commit to a table whose only blank row is at index 3 overwrites
\* index 3 and adds no row at the bottom when fill mode is on, and adds the
\* row at the bottom, leaving the blank row, when fill mode is off.
C16_FillBeforeAppend ==
    (graphOut.ok /\ OnlyBlankAt(graphIn.table, 3)) =>
        IF graphIn.fill
        THEN /\ ledger = [graphIn.table EXCEPT ![4] = graphIn.row]
             /\ graphOut.mode = "fill-first-empty"
             /\ graphOut.index = 3
        ELSE /\ ledger = graphIn.table \o <<graphIn.row>>
             /\ graphOut.mode = "append-bottom"

C16_Witness ==
    /\ graphOut.ok
    /\ graphIn.fill
    /\ OnlyBlankAt(graphIn.table, 3)
    /\ \E c \in Cols : graphIn.table[1][c] = None
    /\ Len(ledger) = Len(graphIn.table)
    /\ ledger[4] = graphIn.row

\* C17: every row the orchestrator commits has in its notes the receipt tag
\* of its origin message, receipt=telegram:<conversation>:<message id>, and
\* the tag is added only when absent: embedding it into the row's notes once
\* more leaves them as they are.
C17_RowsCarryReceiptTag ==
    \A i \in 1..Len(ledger) :
        LET r == ledger[i]
            tag == "receipt=telegram:" \o r.chat_id \o ":"
                   \o ToString(r.message_id)
        IN  /\ Contains(r.notes, tag)
            /\ EmbedReceipt(r.notes, Receipt(r.chat_id, r.message_id)) = r.notes

C17_Witness ==
    \E i, j \in 1..Len(ledger) :
        /\ ledger[i].chat_id # ledger[j].chat_id
        /\ ledger[i].message_id = ledger[j].message_id
        /\ ledger[i].notes = "receipt=telegram:g1:1"

\* C18: two commits of the same conversation and message id, in one run or
\* in different runs, give rows with the same receipt tag, and commits of
\* different pairs give different receipts.
C18_ReceiptStable ==
    \A i, j \in 1..Len(ledger) :
        (ledger[i].chat_id = ledger[j].chat_id
            /\ ledger[i].message_id = ledger[j].message_id)
        <=> ledger[i].notes = ledger[j].notes

C18_Witness ==
    \E i, j, k \in 1..Len(ledger) :
        /\ i < j
        /\ ledger[i].chat_id = ledger[j].chat_id
        /\ ledger[i].message_id = ledger[j].message_id
        /\ ledger[k].notes # ledger[i].notes

\* C19: marking (with well-formed metadata, if any is given) a key that is
\* already marked does not fail, replaces the metadata stored for that key
\* by that of the new call, and leaves the set of marked keys and the other
\* keys' metadata as they were.
C19_MarkIdempotent ==
    (/\ dedupeCall.mode = "mark"
     /\ dedupeCall.key \in DOMAIN dedupeCall.before.seen
     /\ dedupeCall.meta_ok) =>
        /\ dedupeCall.exit = 0
        /\ DOMAIN dedupeFile.seen = DOMAIN dedupeCall.before.seen
        /\ \A k \in DOMAIN dedupeFile.seen \ {dedupeCall.key} :
               dedupeFile.seen[k] = dedupeCall.before.seen[k]
        /\ LET m == dedupeFile.seen[dedupeCall.key]
           IN  /\ DOMAIN m = (DOMAIN dedupeCall.meta) \cup {"marked_at"}
               /\ \A f \in DOMAIN dedupeCall.meta : m[f] = dedupeCall.meta[f]
               /\ "marked_at" \notin DOMAIN dedupeCall.meta =>
                      m.marked_at = dedupeCall.now

C19_Witness ==
    /\ dedupeCall.mode = "mark"
    /\ dedupeCall.exit = 0
    /\ dedupeCall.key \in DOMAIN dedupeCall.before.seen
    /\ dedupeCall.before.seen[dedupeCall.key] # dedupeFile.seen[dedupeCall.key]
    /\ Cardinality(DOMAIN dedupeFile.seen) = 2

\* C20: after any sequence of check and mark calls, a check of a key exits
\* with 10 if a mark of that key has succeeded before and with 0 if none
\* has; a key once marked stays in the store; and a check leaves the store
\* as it found it.
C20_CheckIffMarked ==
    /\ marked \subseteq DOMAIN dedupeFile.seen
    /\ dedupeCall.mode = "check" =>
           /\ dedupeCall.exit = IF dedupeCall.key \in marked THEN 10 ELSE 0
           /\ dedupeFile = dedupeCall.before

C20_Witness ==
    /\ dedupeCall.mode = "check"
    /\ dedupeCall.exit = 10
    /\ Cardinality(marked) = 2
    /\ \E k \in DedupeKeys : k \notin marked

\* The watermark the state file held when the run started (0 when there
\* was none).
StartWatermark == IF start.file.kind = "valid" THEN start.file.last ELSE 0

\* C21: a run with --init-only commits nothing and creates no dedup entry,
\* with or without a watermark persisted before, and persists as watermark
\* the larger of the previous watermark and the highest candidate id of the
\* group in the transcript.
C21_InitOnlyInitialises ==
    (pc = "done" /\ args.init_only) =>
        /\ Len(ledger) = start.rows
        /\ DOMAIN dedupeFile.seen = start.keys
        /\ stateFile.kind = "valid"
        /\ stateFile.last \in {StartWatermark} \cup CandidateMids(args.group_id)
        /\ \A n \in {StartWatermark} \cup CandidateMids(args.group_id) :
               n <= stateFile.last

C21_Witness ==
    /\ pc = "done"
    /\ args.init_only
    /\ start.file.kind = "valid"
    /\ start.file.last > 0
    /\ stateFile.last > start.file.last
    /\ start.rows > 0

\* The fields of a draft that decide what is committed.
Draft(d) ==
    [item |-> d.item, total |-> d.total, currency |-> d.currency,
     category |-> d.category, project_code |-> d.project_code,
     confidence |-> d.confidence, missing_fields |-> d.missing_fields,
     needs_clarification |-> d.needs_clarification]

C23_EvaluatedAscending ==
    \A i, j \in Evaluated : i < j => trace[i].mid <= trace[j].mid

\* The run left the loop at the cap (main, lines 343-345).
StoppedAtCap ==
    /\ pc = "done"
    /\ ~out.initialized
    /\ Len(trace) > 0
    /\ trace[Len(trace)].what = "commit"
    /\ CapReached(appended, args.max)

\* The candidates of the run's group that pass 2 did not get to (every
\* candidate it got to left one event in trace), duplicates of messages it
\* evaluated and messages at or below the watermark it started from aside.
NotReached ==
    {i \in CandidateAt(args.group_id) :
        /\ Cardinality({j \in CandidateAt(args.group_id) : j <= i}) > Len(trace)
        /\ transcript[i].mid > StartWatermark
        /\ \A k \in Evaluated : trace[k].mid # transcript[i].mid}

\* C24: when a run ends at the cap, every candidate it did not get to has
\* a message id above the watermark the run persisted, so the next run
\* evaluates it.
C24_CapLeavesRestAboveWatermark ==
    StoppedAtCap =>
        \A i \in NotReached :
            transcript[i].mid > StateLast(load_state(stateFile))

\* The step is an iteration of pass 2 that ends with this event.
Does(what) ==
    /\ Len(trace') = Len(trace) + 1
    /\ trace'[Len(trace')].what = what

\* C25: an iteration whose commit fails leaves the dedup store as it was:
\* the message is not marked.
C25_FailedCommitNotMarked ==
    [][Does("fail") => dedupeFile' = dedupeFile]_vars

C25_Witness ==
    /\ Len(trace) > 0
    /\ trace[Len(trace)].what = "fail"
    /\ dedupe_key(args.group_id, trace[Len(trace)].mid)
           \notin DOMAIN dedupeFile.seen
    /\ dedupeFile.seen # EmptySeen

\* C26: in pass 2 a candidate above the watermark whose dedup key is
\* marked is passed over, with no parser call and no commit, and last_mid
\* becomes at least its id.
C26_MarkedIsSkipped ==
    [][(/\ InLoop
        /\ Cand # NoCand
        /\ Mid > last_mid
        /\ Key \in DOMAIN dedupeFile.seen)
       => (/\ Does("seen")
           /\ ledger' = ledger
           /\ appended' = appended
           /\ dedupeFile' = dedupeFile
           /\ last_mid' >= Mid)]_vars

C26_Witness ==
    /\ Len(trace) > 0
    /\ trace[Len(trace)].what = "seen"
    /\ trace[Len(trace)].mid > StartWatermark
    /\ last_mid = trace[Len(trace)].mid
    /\ Committed(args.group_id, last_mid)

\* C27: a candidate whose id is at or below the watermark is passed over
\* with no dedup check, no parser call and no commit; no file changes and
\* last_mid stays.
C27_OldIsSkipped ==
    [][(/\ InLoop
        /\ Cand # NoCand
        /\ Mid <= last_mid)
       => (/\ Does("old")
           /\ UNCHANGED <<files, last_mid, appended>>)]_vars

C27_Witness ==
    /\ Len(trace) > 0
    /\ trace[Len(trace)].what = "old"
    /\ trace[Len(trace)].mid = last_mid
    /\ ~Committed(args.group_id, last_mid)

\* C28: the state file and the dedup file are replaced whole: whenever a
\* run is interrupted, each holds a complete content, never a partial or
\* empty one.
C28_FilesWhole ==
    /\ stateFile.kind # "corrupt"
    /\ dedupeFile.kind # "corrupt"

\* The 1-based positions of the blank rows of table t.
Blanks(t) == {i \in 1..Len(t) : BlankRow(t[i])}

\* C29: with fill mode on, a commit overwrites the lowest blank row of the
\* table wherever it is and leaves the row count as it was; it adds a row
\* at the bottom only when the table has no blank row.
C29_FillsLowestBlank ==
    (graphOut.ok /\ graphIn.fill) =>
        LET t == graphIn.table
        IN  IF Blanks(t) # {}
            THEN ledger = [t EXCEPT ![CHOOSE i \in Blanks(t) :
                                         \A j \in Blanks(t) : i <= j]
                                     = graphIn.row]
            ELSE ledger = Append(t, graphIn.row)

\* The ids of the messages of conversation g that hold the keyword.
OwnBuyMids(g) ==
    {transcript[k].mid : k \in {n \in 1..Len(transcript) :
                                   /\ transcript[n].gid = g
                                   /\ HasBuy(transcript[n].text)}}

\* C30: a message of another conversation, or one without the keyword, is
\* never a candidate: every committed row is that of a message of the
\* run's own conversation that holds the keyword, and the watermark a run
\* persists is the one it started from or the id of such a message.
C30_OnlyOwnBuyMessagesCount ==
    /\ \A i \in 1..Len(ledger) :
           ledger[i].message_id \in OwnBuyMids(ledger[i].chat_id)
    /\ pc = "done" =>
           StateLast(load_state(stateFile))
               \in {StartWatermark} \cup OwnBuyMids(args.group_id)

\* C31: the draft of every text has needs_clarification true exactly when
\* its missing_fields list is not empty, and every committed row is that of
\* a message whose draft has needs_clarification false.
C31_ClarificationIffMissing ==
    /\ \A i \in 1..Len(transcript), now \in Clock :
           LET draft == run_parser(transcript[i].text, now)
           IN  draft.needs_clarification <=> draft.missing_fields # <<>>
    /\ \A i \in 1..Len(ledger), now \in Clock :
           ~run_parser(ledger[i].raw_text, now).needs_clarification

C31_Witness ==
    /\ Len(ledger) > 0
    /\ \A now \in Clock :
           run_parser(ledger[1].raw_text, now).missing_fields = <<>>
    /\ ledger[1].raw_text # BuyOk

\* C32: within a run the message ids of the entries of appended are
\* strictly increasing, so no id is committed twice in a run.
C32_AppendedIncreasing ==
    \A i, j \in 1..Len(appended) :
        i < j => appended[i].message_id < appended[j].message_id

C32_Witness ==
    /\ pc = "done"
    /\ Len(appended) = 2
    /\ Len(ledger) = 2
    /\ args.max = DefaultMax

\* The run in progress started with no watermark persisted.
StartedWithoutWatermark ==
    /\ pc \in {"pass2", "done"}
    /\ start.file.kind # "valid"

\* C33 as stated: a run that starts without a persisted watermark commits
\* no row and marks nothing, and when the transcript holds no candidate it
\* persists no watermark.
C33_FirstRunPersistsNothingWithoutCandidates ==
    StartedWithoutWatermark =>
        /\ Len(ledger) = start.rows
        /\ DOMAIN dedupeFile.seen = start.keys
        /\ (pc = "done" /\ CandidateMids(args.group_id) = {})
               => stateFile.kind # "valid"

\* C33: a run that starts without a persisted watermark commits no row and
\* marks nothing; when the transcript holds no candidate, a run without
\* --init-only persists no watermark, so the next run is again a first run,
\* and a run with --init-only persists watermark 0.
C33_FirstRunCommitsNothing ==
    StartedWithoutWatermark =>
        /\ Len(ledger) = start.rows
        /\ DOMAIN dedupeFile.seen = start.keys
        /\ (pc = "done" /\ CandidateMids(args.group_id) = {})
               => IF args.init_only
                  THEN stateFile = ValidState(0)
                  ELSE /\ stateFile = start.file
                       /\ ~load_state(stateFile).has

C33_Witness ==
    /\ pc = "done"
    /\ start.file.kind = "absent"
    /\ ~args.init_only
    /\ CandidateMids(args.group_id) = {}
    /\ Len(transcript) > 0
    /\ Len(ledger) > 0
    /\ stateFile.kind = "absent"

\* The watermark in the state file (0 when there is none).
Watermark == StateLast(load_state(stateFile))

\* C34: after a run that went through pass 2 the persisted watermark is
\* the one the run started from or the id of a message the run committed
\* or found marked; it is not above the largest candidate id of the
\* transcript; every entry of appended has an id above the watermark of
\* the start and at most the watermark of the end.
C34_WatermarkIsEvaluatedId ==
    (pc = "done" /\ ~out.initialized) =>
        /\ \/ stateFile = start.file
           \/ \E i \in Events("commit") \cup Events("seen") :
                  trace[i].mid = Watermark
        /\ \E n \in CandidateMids(args.group_id) \cup {0} : Watermark <= n
        /\ \A k \in 1..Len(appended) :
               /\ appended[k].message_id > StartWatermark
               /\ appended[k].message_id <= Watermark

\* The same for transcripts that hold messages of the run's conversation
\* only.
C34_OneConversation ==
    (\A i \in 1..Len(transcript) : transcript[i].gid = args.group_id)
        => C34_WatermarkIsEvaluatedId

\* C35: every draft that parse reports as complete has an item, an amount,
\* a currency, a category and a project code, and every draft with an
\* amount has a currency.
C35_CompleteDraftHasAllFields ==
    (parseOut # NoDraft) =>
        /\ ~parseOut.needs_clarification =>
               /\ parseOut.item # None
               /\ parseOut.total # None
               /\ parseOut.currency # None
               /\ parseOut.category # None
               /\ parseOut.project_code # None
        /\ parseOut.total # None => parseOut.currency # None

C35_Witness ==
    /\ parseOut # NoDraft
    /\ ~parseOut.needs_clarification
    /\ parseOut.total = "5.0"
    /\ parseOut.currency = "AUD"
    /\ parseOut.raw_text = parseIn

====
